---------------------------- MODULE Spec2Model ----------------------------
(***************************************************************************)
(* The KPM metrics collector xApp (flexric_xapp/xapp_kpm_metrics_collector  *)
(* .c, "v1", and xapp_kpm_metrics_collector_v2.c, "v2") as a state machine: *)
(* the controller thread running main(), the interrupt handler, and one     *)
(* transport delivery thread per subscription running the service-model     *)
(* callbacks, all sharing csv_mutex, metrics, sample_count, running and the *)
(* output file.                                                             *)
(*                                                                         *)
(* Measurement values are marks: every field of one report carries the      *)
(* report's mark, so a row whose fields of one layer differ mixes two       *)
(* reports.  The 0 mark is the `metrics = {0}` default.                     *)
(***************************************************************************)
EXTENDS Integers, Sequences, FiniteSets, TLC

VARIABLES
    variant,        \* "v1" | "v2": which collector program runs
    e2_nodes,       \* environment: node types connected to the RIC
    argv,           \* environment: the numeric argument given, 0 when none
    budget,         \* environment: reports / faults it may still produce
    clock,          \* environment: the time time_now_us() returns
    pc,             \* controller position in main()
    exit_code,      \* -1 while running, else main's return value
    csv_file,       \* FILE* csv_file: "NULL" | "open" | "closed" (dangling)
    csv,            \* the output file's content
    csv_mutex,      \* {} when free, {slot} when held by that callback thread
    running,        \* static volatile int running
    sample_count,   \* static uint64_t sample_count
    target_samples, \* static uint64_t target_samples
    metrics,        \* the static metrics struct
    nodes,          \* e2_node_arr_xapp_t nodes (the types, in order)
    i, j,           \* main's loop indices: node, service model
    h,              \* mac_h, rlc_h, pdcp_h, gtp_h, kpm_h: slot -> sm_ans_xapp_t
    active,         \* slots with a live subscription in the RIC
    sub_log,        \* report_sm_xapp_api calls made, in order
    rm_log,         \* rm_report_sm_xapp_api calls made, in order
    th,             \* per slot: the delivery thread's position in its callback
    mac_reports,    \* non-empty MAC reports delivered so far
    oob,            \* a callback has read past the end of a list
    seen_rows,      \* rows in the file when the idle loop was left (-1 before)
    reported,       \* the "Samples:" count main printed at the end (-1 before)
    kpm_sub,        \* per node: the kpm_sub_data_t built, passed on and freed
    v1_run,         \* the v1 collector run alongside, fed the same events
    signalled       \* an interrupt has been handled

vars == <<variant, e2_nodes, argv, budget, clock, pc, exit_code, csv_file, csv, csv_mutex,
          running, sample_count, target_samples, metrics, nodes, i, j, h,
          active, sub_log, rm_log, th, mac_reports, oob, seen_rows,
          reported, kpm_sub, v1_run, signalled>>

(***************************************************************************)
(* Bounds of the model.                                                     *)
(***************************************************************************)
\* nodes the RIC reports at most
MaxNodes == 2
\* marks a report may carry: 1..MaxVal
MaxVal == 1
\* UE / bearer entries in one report at most
MaxEntries == 2
\* stand-in for target_samples = 1000
TargetSamples == 1
\* stand-in for PRINT_INTERVAL = 100
PrintInterval == 2
\* non-empty MAC reports delivered in one run of the collection scenarios
MaxMacReports == 3
\* non-empty secondary reports delivered in one run
MaxSecReports == 1
\* UE reports in one KPM indication at most
MaxKpmUes == 1
\* reports without an entry delivered in one run
MaxEmptyReports == 1
\* times the clock advances in one run of the MAC scenarios
MaxTicks == 1
\* MAC reports with more than one UE in one run of the MAC scenarios
MaxMultiReports == 1
\* non-empty MAC reports delivered in one run of the MAC scenarios
MaxMacOnlyReports == 2
\* subscribe / unsubscribe answers that deviate from "success, handle 1"
MaxFaults == 2
\* non-empty MAC reports delivered in one run of v2 beside v1
MaxPairMacReports == 2
\* non-empty secondary reports delivered in one run of v2 beside v1
MaxPairSecReports == 2

\* the marks of the reports of node n: no two nodes share a mark
Vals(n) == {(v - 1) * MaxNodes + n : v \in 1..MaxVal}

(***************************************************************************)
(* Service models, in the order main() subscribes them.                     *)
(***************************************************************************)
\* a subscription loop that starts with RLC
SmNamesRlcFirst(v) ==
    IF v = "v1" THEN <<"rlc", "mac", "pdcp", "gtp">>
                ELSE <<"rlc", "mac", "pdcp", "gtp", "kpm">>

SmNames(v) ==
    IF v = "v1" THEN <<"mac", "rlc", "pdcp", "gtp">>
                ELSE <<"mac", "rlc", "pdcp", "gtp", "kpm">>

SmId(m) ==
    CASE m = "mac" -> 142 [] m = "rlc" -> 143 [] m = "pdcp" -> 144
      [] m = "gtp" -> 148 [] m = "kpm" -> 2

AllSm == {"mac", "rlc", "pdcp", "gtp", "kpm"}

Slots == (1..MaxNodes) \X AllSm

NodeTypes == {"ngran_gNB", "ngran_eNB", "ngran_gNB_DU"}

\* a subscription loop that passes over the eNBs
WantedGnbOnly(type) == type = "ngran_gNB"

\* if (n->id.type == ngran_gNB || n->id.type == ngran_eNB)
Wanted(type) == type = "ngran_gNB" \/ type = "ngran_eNB"

(***************************************************************************)
(* The metrics struct.  Assign(m, u) overwrites the fields of m that u      *)
(* names, as a run of C assignments does.                                   *)
(***************************************************************************)
MacFields ==
    <<"rnti", "cqi", "pusch_snr", "pucch_snr", "dl_bler", "ul_bler",
      "dl_mcs1", "dl_mcs2", "ul_mcs1", "ul_mcs2", "dl_tbs", "ul_tbs",
      "dl_aggr_tbs", "ul_aggr_tbs", "dl_prb", "ul_prb", "dl_sched_rb",
      "ul_sched_rb", "bsr", "phr", "frame", "slot">>

RlcFields ==
    <<"rlc_tx_pkts", "rlc_tx_bytes", "rlc_rx_pkts", "rlc_rx_bytes",
      "rlc_txbuf", "rlc_rxbuf", "rlc_retx">>

PdcpFields ==
    <<"pdcp_tx_pkts", "pdcp_tx_bytes", "pdcp_rx_pkts", "pdcp_rx_bytes">>

KpmFields ==
    <<"dl_thp_kbps", "ul_thp_kbps", "rlc_sdu_delay_us", "pdcp_sdu_vol_dl_kb",
      "pdcp_sdu_vol_ul_kb", "prb_tot_dl", "prb_tot_ul">>

ValidFlags == <<"mac_valid", "rlc_valid", "pdcp_valid", "kpm_valid">>

Range(s) == {s[k] : k \in DOMAIN s}

MetricsFields ==
    {"timestamp"} \cup Range(MacFields) \cup Range(RlcFields)
        \cup Range(PdcpFields) \cup Range(KpmFields) \cup Range(ValidFlags)

\* static struct {...} metrics = {0};
MetricsZero == [f \in MetricsFields |-> 0]

Assign(m, u) ==
    [f \in DOMAIN m |-> IF f \in DOMAIN u THEN u[f] ELSE m[f]]

(***************************************************************************)
(* Indication messages.  mac_ue_stats_impl_t, rlc_radio_bearer_stats_t and  *)
(* pdcp_radio_bearer_stats_t entries, restricted to the members the         *)
(* callbacks read; an entry marked v carries v in every member.             *)
(***************************************************************************)
MacUe(v) ==
    [rnti |-> v, wb_cqi |-> v, pusch_snr |-> v, pucch_snr |-> v,
     dl_bler |-> v, ul_bler |-> v, dl_mcs1 |-> v, dl_mcs2 |-> v,
     ul_mcs1 |-> v, ul_mcs2 |-> v, dl_curr_tbs |-> v, ul_curr_tbs |-> v,
     dl_aggr_tbs |-> v, ul_aggr_tbs |-> v, dl_aggr_prb |-> v,
     ul_aggr_prb |-> v, dl_sched_rb |-> v, ul_sched_rb |-> v, bsr |-> v,
     phr |-> v, frame |-> v, slot |-> v]

RlcRb(v) ==
    [txpdu_pkts |-> v, txpdu_bytes |-> v, rxpdu_pkts |-> v, rxpdu_bytes |-> v,
     txbuf_occ_bytes |-> v, rxbuf_occ_bytes |-> v, txpdu_retx_pkts |-> v]

PdcpRb(v) ==
    [txpdu_pkts |-> v, txpdu_bytes |-> v, rxpdu_pkts |-> v, rxpdu_bytes |-> v]

\* the lists of at most n members of S
SeqsUpTo(S, n) == UNION {[1..k -> S] : k \in 0..n}

\* the marks of the further entries of node n's reports: other UEs, other
\* bearers
OtherVals(n) == {v + MaxNodes * MaxVal : v \in Vals(n)}

Marks(n) ==
    {<<>>} \cup
    {<<v>> \o rest : v \in Vals(n),
                     rest \in SeqsUpTo(OtherVals(n), MaxEntries - 1)}

\* the callbacks without their length check
ZeroEntriesNever(msg) == FALSE

\* if (msg->len_ue_stats == 0) return;  if (msg->len == 0) return;
ZeroEntries(msg) == Len(msg) = 0

\* &msg->ue_stats[0], &msg->rb[0]: of a list without entries, whatever
\* lies there
Entry0(msg) == IF Len(msg) = 0 THEN 0 ELSE msg[1]

(***************************************************************************)
(* The assignments of the callbacks, in source order, cut in two halves so  *)
(* that an update is not atomic by construction.                            *)
(***************************************************************************)
\* sm_cb_mac: metrics.timestamp .. metrics.ul_mcs2
MacAssignA(ue, now) ==
    [timestamp |-> now, rnti |-> ue.rnti, cqi |-> ue.wb_cqi,
     pusch_snr |-> ue.pusch_snr, pucch_snr |-> ue.pucch_snr,
     dl_bler |-> ue.dl_bler, ul_bler |-> ue.ul_bler,
     dl_mcs1 |-> ue.dl_mcs1, dl_mcs2 |-> ue.dl_mcs2,
     ul_mcs1 |-> ue.ul_mcs1, ul_mcs2 |-> ue.ul_mcs2]

\* sm_cb_mac: metrics.dl_tbs .. metrics.mac_valid
MacAssignB(ue) ==
    [dl_tbs |-> ue.dl_curr_tbs, ul_tbs |-> ue.ul_curr_tbs,
     dl_aggr_tbs |-> ue.dl_aggr_tbs, ul_aggr_tbs |-> ue.ul_aggr_tbs,
     dl_prb |-> ue.dl_aggr_prb, ul_prb |-> ue.ul_aggr_prb,
     dl_sched_rb |-> ue.dl_sched_rb, ul_sched_rb |-> ue.ul_sched_rb,
     bsr |-> ue.bsr, phr |-> ue.phr, frame |-> ue.frame, slot |-> ue.slot,
     mac_valid |-> 1]

\* sm_cb_rlc: metrics.rlc_tx_pkts .. metrics.rlc_rx_bytes
RlcAssignA(rb) ==
    [rlc_tx_pkts |-> rb.txpdu_pkts, rlc_tx_bytes |-> rb.txpdu_bytes,
     rlc_rx_pkts |-> rb.rxpdu_pkts, rlc_rx_bytes |-> rb.rxpdu_bytes]

\* sm_cb_rlc: metrics.rlc_txbuf .. metrics.rlc_valid
RlcAssignB(rb) ==
    [rlc_txbuf |-> rb.txbuf_occ_bytes, rlc_rxbuf |-> rb.rxbuf_occ_bytes,
     rlc_retx |-> rb.txpdu_retx_pkts, rlc_valid |-> 1]

\* sm_cb_pdcp: metrics.pdcp_tx_pkts, metrics.pdcp_tx_bytes
PdcpAssignA(rb) ==
    [pdcp_tx_pkts |-> rb.txpdu_pkts, pdcp_tx_bytes |-> rb.txpdu_bytes]

\* a PDCP update that consumes the MAC snapshot
PdcpAssignBClearsMac(rb) ==
    [pdcp_rx_pkts |-> rb.rxpdu_pkts, pdcp_rx_bytes |-> rb.rxpdu_bytes,
     pdcp_valid |-> 1, mac_valid |-> 0]

\* sm_cb_pdcp: metrics.pdcp_rx_pkts .. metrics.pdcp_valid
PdcpAssignB(rb) ==
    [pdcp_rx_pkts |-> rb.rxpdu_pkts, pdcp_rx_bytes |-> rb.rxpdu_bytes,
     pdcp_valid |-> 1]

(***************************************************************************)
(* The dataset file: write_csv_header's field names and write_csv_row's     *)
(* fprintf arguments, both in source order.                                 *)
(***************************************************************************)
HeaderV1 ==
    <<"timestamp">> \o
    <<"rnti", "cqi", "pusch_snr", "pucch_snr", "dl_bler", "ul_bler",
      "dl_mcs1", "dl_mcs2", "ul_mcs1", "ul_mcs2", "dl_tbs", "ul_tbs",
      "dl_aggr_tbs", "ul_aggr_tbs", "dl_prb", "ul_prb", "dl_sched_rb",
      "ul_sched_rb", "bsr", "phr", "frame", "slot">> \o
    <<"rlc_tx_pkts", "rlc_tx_bytes", "rlc_rx_pkts", "rlc_rx_bytes",
      "rlc_txbuf", "rlc_rxbuf", "rlc_retx">> \o
    <<"pdcp_tx_pkts", "pdcp_tx_bytes", "pdcp_rx_pkts", "pdcp_rx_bytes">>

HeaderV2 ==
    HeaderV1 \o
    <<"dl_thp_kbps", "ul_thp_kbps", "rlc_sdu_delay_us", "pdcp_vol_dl_kb",
      "pdcp_vol_ul_kb", "prb_tot_dl", "prb_tot_ul">>

Header(v) == IF v = "v1" THEN HeaderV1 ELSE HeaderV2

RowV1(m) ==
    <<m.timestamp,
      m.rnti, m.cqi, m.pusch_snr, m.pucch_snr,
      m.dl_bler, m.ul_bler,
      m.dl_mcs1, m.dl_mcs2, m.ul_mcs1, m.ul_mcs2,
      m.dl_tbs, m.ul_tbs, m.dl_aggr_tbs, m.ul_aggr_tbs,
      m.dl_prb, m.ul_prb, m.dl_sched_rb, m.ul_sched_rb,
      m.bsr, m.phr, m.frame, m.slot,
      m.rlc_tx_pkts, m.rlc_tx_bytes,
      m.rlc_rx_pkts, m.rlc_rx_bytes,
      m.rlc_txbuf, m.rlc_rxbuf, m.rlc_retx,
      m.pdcp_tx_pkts, m.pdcp_tx_bytes,
      m.pdcp_rx_pkts, m.pdcp_rx_bytes>>

\* a v2 row that starts with the KPM fields
RowV2KpmFirst(m) ==
    <<m.dl_thp_kbps, m.ul_thp_kbps, m.rlc_sdu_delay_us,
      m.pdcp_sdu_vol_dl_kb, m.pdcp_sdu_vol_ul_kb,
      m.prb_tot_dl, m.prb_tot_ul>> \o RowV1(m)

RowV2(m) ==
    RowV1(m) \o
    <<m.dl_thp_kbps, m.ul_thp_kbps, m.rlc_sdu_delay_us,
      m.pdcp_sdu_vol_dl_kb, m.pdcp_sdu_vol_ul_kb,
      m.prb_tot_dl, m.prb_tot_ul>>

\* a row with the rnti and cqi arguments in each other's place
RowOfSwapped(v, m) ==
    LET r == IF v = "v1" THEN RowV1(m) ELSE RowV2(m)
    IN  [k \in DOMAIN r |->
           IF k = 2 THEN r[3] ELSE IF k = 3 THEN r[2] ELSE r[k]]

RowOf(v, m) == IF v = "v1" THEN RowV1(m) ELSE RowV2(m)

\* the file after fopen(output, "w"): hdr header lines and lines rows, the
\* last row and the timestamp of the row before it (-1 when there is none),
\* what the first line is, the rows flushed, and whether a line went through
\* the closed FILE*
CsvEmpty ==
    [hdr |-> 0, lines |-> 0, last |-> <<>>, prev_ts |-> -1, first |-> "none",
     synced |-> 0, stale |-> FALSE]

\* a main that writes no header
WriteCsvHeaderNothing(f) == f

\* write_csv_header: fprintf(csv_file, "timestamp,...\n"); fflush(csv_file);
WriteCsvHeader(f) ==
    [f EXCEPT !.hdr = @ + 1,
              !.first = IF f.hdr + f.lines = 0 THEN "header" ELSE @]


(***************************************************************************)
(* sm_ans_xapp_t as main() uses it: the success flag and the union u, whose *)
(* bits are the handle of a successful subscription or the reason of a      *)
(* failed one; only "zero or not" is kept of u.                             *)
(***************************************************************************)
SmAns == [success : BOOLEAN, u : 0..1]

\* calloc(nodes.len, sizeof(sm_ans_xapp_t))
SmAnsZero == [success |-> FALSE, u |-> 0]

\* the answer of a RIC that works: success, with a non-zero handle
SmAnsNominal == [success |-> TRUE, u |-> 1]

\* no kpm_sub_data_t has been built for the node
KpmSubNone == [built |-> 0, passed |-> 0, freed |-> 0]

\* a subscription loop that releases the definition of a successful
\* subscription only
KpmReleasedOnSuccess(ans) == ans.success

\* free_kpm_sub_data(&kpm_sub): whatever report_sm_xapp_api answered
KpmReleased(ans) == TRUE

\* kpm_sub.ad = calloc(...); kpm_sub.ad[0] = gen_kpm_act_def();
\* kpm_h[i] = report_sm_xapp_api(&n->id, 2, &kpm_sub, sm_cb_kpm);
\* free_kpm_sub_data(&kpm_sub);
KpmSubUsed(k, ans) ==
    [built |-> k.built + 1, passed |-> k.passed + 1,
     freed |-> IF KpmReleased(ans) THEN k.freed + 1 ELSE k.freed]

\* n: the entries of the MAC report in progress
Idle == [pc |-> "idle", ue |-> 0, n |-> 0, msg |-> <<>>, trig |-> <<>>]

(***************************************************************************)
(* The v1 collector run alongside the program: what v1's main, handler,    *)
(* sm_cb_mac, sm_cb_rlc, sm_cb_pdcp and write_csv_row do to v1's own       *)
(* buffer, file, count and stop flag when they get the event the program   *)
(* gets.  ok records that v1 took the same branch.  It runs only where on  *)
(* is set.                                                                 *)
(***************************************************************************)
V1Start(on) ==
    [on |-> on, ok |-> TRUE, metrics |-> MetricsZero, lines |-> 0,
     last |-> <<>>, sample_count |-> 0, running |-> 1, csv_file |-> "NULL"]

V1Does(r) == v1_run' = IF v1_run.on THEN r ELSE v1_run

\* csv_file = fopen(output, "w");
V1Open(ok) == [v1_run EXCEPT !.csv_file = IF ok THEN "open" ELSE "NULL"]

\* if (nodes.len == 0) { fclose(csv_file); return 1; }
V1Discover(ns) ==
    IF Len(ns) = 0 THEN [v1_run EXCEPT !.csv_file = "closed"] ELSE v1_run

\* while (running && sample_count < target_samples) is over
V1LoopExit ==
    [v1_run EXCEPT !.ok = @ /\ ~(/\ v1_run.running # 0
                                 /\ v1_run.sample_count < target_samples)]

\* if (csv_file) { fflush(csv_file); fclose(csv_file); }
V1Close == [v1_run EXCEPT !.csv_file = IF @ # "NULL" THEN "closed" ELSE @]

\* running = 0;
V1Signal == [v1_run EXCEPT !.running = 0]

\* the assignments u to v1's metrics
V1Assign(u) == [v1_run EXCEPT !.metrics = Assign(@, u)]

\* if (!csv_file || !metrics.mac_valid) return;
V1RowCheck(goes_on) ==
    [v1_run EXCEPT !.ok = @ /\ (goes_on <=> ~(\/ v1_run.csv_file = "NULL"
                                              \/ v1_run.metrics.mac_valid = 0))]

\* fprintf(csv_file, ...) of v1's 34 fields
V1Print(written) ==
    IF written
    THEN [v1_run EXCEPT !.lines = @ + 1, !.last = RowV1(v1_run.metrics)]
    ELSE v1_run

\* sample_count++;
V1Count == [v1_run EXCEPT !.sample_count = @ + 1]

\* if (sample_count >= target_samples) running = 0;
V1RowEnd ==
    [v1_run EXCEPT !.running = IF v1_run.sample_count >= target_samples
                               THEN 0 ELSE @]

InitProgram ==
    /\ clock = 0
    /\ pc = "main"
    /\ exit_code = -1
    /\ csv_file = "NULL"
    /\ csv = CsvEmpty
    /\ csv_mutex = {}
    /\ running = 1
    /\ sample_count = 0
    /\ target_samples = TargetSamples
    /\ metrics = MetricsZero
    /\ nodes = <<>>
    /\ i = 0
    /\ j = 0
    /\ h = [s \in Slots |-> SmAnsZero]
    /\ active = {}
    /\ sub_log = <<>>
    /\ rm_log = <<>>
    /\ th = [s \in Slots |-> Idle]
    /\ mac_reports = 0
    /\ oob = FALSE
    /\ seen_rows = -1
    /\ reported = -1
    /\ kpm_sub = [n \in 1..MaxNodes |-> KpmSubNone]
    /\ signalled = FALSE

(***************************************************************************)
(* The controller: main().                                                  *)
(***************************************************************************)
ctl_vars == <<pc, exit_code, nodes, i, j, h, sub_log, rm_log, seen_rows,
              reported, kpm_sub>>
cb_vars == <<metrics, th, mac_reports, oob, clock, csv_mutex>>
env_vars == <<variant, e2_nodes, argv>>

\* the answers the RIC may give to one more call
Answers(S, nominal) == IF budget.faults > 0 THEN S ELSE {nominal}

Spend(b, what) == [b EXCEPT ![what] = @ - 1]

\* the position after slot (i, j) in `for i { if wanted { j = 1 .. } }`
AfterSlot(next_pc) ==
    LET last == j >= Len(SmNames(variant))
        ni == IF last THEN i + 1 ELSE i
    IN  /\ i' = ni
        /\ j' = IF last THEN 1 ELSE j + 1
        /\ pc' = IF ni > Len(nodes) THEN next_pc ELSE pc

\* target_samples = 1000; signal(...); csv_file = fopen(output, "w");
\* if (!csv_file) return 1; write_csv_header();
main_open ==
    /\ pc = "main"
    /\ target_samples' = TargetSamples
    /\ \E ok \in BOOLEAN :
         IF ok
         THEN /\ csv_file' = "open"
              /\ csv' = WriteCsvHeader(CsvEmpty)
              /\ pc' = "discover"
              /\ exit_code' = exit_code
         ELSE /\ csv_file' = "NULL"
              /\ csv' = csv
              /\ pc' = "exited"
              /\ exit_code' = 1
    /\ UNCHANGED <<env_vars, budget, cb_vars, running, sample_count, nodes,
                   i, j, h, active, sub_log, rm_log, seen_rows, reported,
                   signalled,
                   kpm_sub>>
    /\ V1Does(V1Open(csv_file' = "open"))

\* main without its check of the node count
NoNodesNever(ns) == FALSE

\* if (nodes.len == 0)
NoNodes(ns) == Len(ns) = 0

\* nodes = e2_nodes_xapp_api(); if (nodes.len == 0) { fclose; return 1; }
\* mac_h = calloc(...); ...; for (size_t i = 0; i < nodes.len; i++)
main_discover ==
    /\ pc = "discover"
    /\ nodes' = e2_nodes
    /\ IF NoNodes(e2_nodes)
       THEN /\ csv_file' = "closed"
            /\ csv' = [csv EXCEPT !.synced = csv.lines]
            /\ pc' = "exited"
            /\ exit_code' = 1
            /\ UNCHANGED <<i, j>>
       ELSE /\ pc' = IF Len(e2_nodes) = 0 THEN "collect" ELSE "subscribe"
            /\ i' = 1
            /\ j' = 1
            /\ UNCHANGED <<csv_file, csv, exit_code>>
    /\ h' = [s \in Slots |-> SmAnsZero]
    /\ UNCHANGED <<env_vars, budget, cb_vars, running, sample_count,
                   target_samples, active, sub_log, rm_log, seen_rows, reported,
                   signalled,
                   kpm_sub>>
    /\ V1Does(V1Discover(e2_nodes))

\* one pass of the subscription loops: a node of another type is skipped,
\* else x_h[i] = report_sm_xapp_api(&n->id, id, ..., sm_cb_x)
main_subscribe ==
    /\ pc = "subscribe"
    /\ IF Wanted(nodes[i])
       THEN LET m == SmNames(variant)[j] IN
            \E ans \in Answers(SmAns, SmAnsNominal) :
              /\ h' = [h EXCEPT ![<<i, m>>] = ans]
              /\ active' = IF ans.success THEN active \cup {<<i, m>>} ELSE active
              /\ sub_log' = Append(sub_log, <<i, SmId(m)>>)
              /\ kpm_sub' = IF m = "kpm"
                            THEN [kpm_sub EXCEPT ![i] = KpmSubUsed(@, ans)]
                            ELSE kpm_sub
              /\ budget' = IF ans = SmAnsNominal THEN budget
                           ELSE Spend(budget, "faults")
              /\ AfterSlot("collect")
       ELSE /\ i' = i + 1
            /\ j' = 1
            /\ pc' = IF i + 1 > Len(nodes) THEN "collect" ELSE pc
            /\ UNCHANGED <<h, active, sub_log, budget, kpm_sub>>
    /\ UNCHANGED <<env_vars, cb_vars, exit_code, csv_file, csv, running,
                   sample_count, target_samples, nodes, rm_log, seen_rows,
                   reported,
                   signalled,
                   v1_run>>

\* an idle loop that looks at the count alone
LoopConditionCountOnly == sample_count < target_samples

\* while (running && sample_count < target_samples) sleep(1);
LoopCondition == running # 0 /\ sample_count < target_samples

main_sleep ==
    /\ pc = "collect"
    /\ LoopCondition
    /\ UNCHANGED vars

\* a main that goes from the idle loop straight to the fclose
main_loop_exit_skip ==
    /\ pc = "collect"
    /\ ~LoopCondition
    /\ pc' = "close"
    /\ seen_rows' = csv.lines
    /\ UNCHANGED <<env_vars, budget, cb_vars, exit_code, csv_file, csv,
                   running, sample_count, target_samples, nodes, i, j, h,
                   active, sub_log, rm_log, reported, signalled,
                   kpm_sub>>
    /\ V1Does(V1LoopExit)

\* ... then for (size_t i = 0; i < nodes.len; i++)
main_loop_exit ==
    /\ pc = "collect"
    /\ ~LoopCondition
    /\ pc' = IF Len(nodes) = 0 THEN "close" ELSE "unsubscribe"
    /\ i' = 1
    /\ j' = 1
    /\ seen_rows' = csv.lines
    /\ UNCHANGED <<env_vars, budget, cb_vars, exit_code, csv_file, csv,
                   running, sample_count, target_samples, nodes, h, active,
                   sub_log, rm_log, reported, signalled,
                   kpm_sub>>
    /\ V1Does(V1LoopExit)

\* v1: if (x_h[i].u.handle) ...   v2: if (x_h[i].success) ...
RmGuard(v, ans) == IF v = "v1" THEN ans.u # 0 ELSE ans.success

\* one pass of the unsubscription loop:
\* if (guard) rm_report_sm_xapp_api(x_h[i].u.handle);
main_unsubscribe ==
    /\ pc = "unsubscribe"
    /\ LET m == SmNames(variant)[j]
           s == <<i, m>>
       IN  IF RmGuard(variant, h[s])
           THEN \E ok \in Answers(BOOLEAN, TRUE) :
                  /\ rm_log' = Append(rm_log, s)
                  /\ active' = IF ok /\ h[s].success THEN active \ {s}
                               ELSE active
                  /\ budget' = IF ok THEN budget ELSE Spend(budget, "faults")
           ELSE UNCHANGED <<rm_log, active, budget>>
    /\ AfterSlot("close")
    /\ UNCHANGED <<env_vars, cb_vars, exit_code, csv_file, csv, running,
                   sample_count, target_samples, nodes, h, sub_log, seen_rows,
                   reported,
                   signalled,
                   kpm_sub,
                   v1_run>>

\* free(...); if (csv_file) { fflush(csv_file); fclose(csv_file); }
main_close ==
    /\ pc = "close"
    /\ IF csv_file # "NULL"
       THEN /\ csv_file' = "closed"
            /\ csv' = [csv EXCEPT !.synced = csv.lines]
       ELSE UNCHANGED <<csv_file, csv>>
    /\ pc' = "stop"
    /\ UNCHANGED <<env_vars, budget, cb_vars, exit_code, running,
                   sample_count, target_samples, nodes, i, j, h, active,
                   sub_log, rm_log, seen_rows, reported, signalled,
                   kpm_sub>>
    /\ V1Does(V1Close)

\* printf("  Samples: %lu\n", sample_count);
\* while (try_stop_xapp_api() == false) usleep(1000); return 0;
main_return ==
    /\ pc = "stop"
    /\ pc' = "exited"
    /\ exit_code' = 0
    /\ reported' = sample_count
    /\ UNCHANGED <<env_vars, budget, cb_vars, csv_file, csv, running,
                   sample_count, target_samples, nodes, i, j, h, active,
                   sub_log, rm_log, seen_rows, signalled,
                   kpm_sub,
                   v1_run>>

\* static void signal_handler(int sig) { running = 0; }
\* installed by signal(SIGINT, ...) at the start of main
signal_handler ==
    /\ pc \notin {"main", "exited"}
    /\ running' = 0
    /\ signalled' = TRUE
    /\ UNCHANGED <<env_vars, budget, cb_vars, ctl_vars, csv_file, csv,
                   sample_count, target_samples, active>>
    /\ V1Does(V1Signal)

(***************************************************************************)
(* The callbacks.  Each runs on the delivery thread of its subscription     *)
(* (slot s = <<node, service model>>), one report at a time per slot.       *)
(***************************************************************************)
Delivering(s, m) ==
    /\ pc # "exited"
    /\ s \in active
    /\ s[2] = m
    /\ th[s].pc = "idle"

\* callbacks that go on only while the stop flag is clear
AtWhileRunning(s, m, where) ==
    s[2] = m /\ th[s].pc = where /\ pc # "exited" /\ running # 0

At(s, m, where) == s[2] = m /\ th[s].pc = where /\ pc # "exited"

Goto(s, where) == th' = [th EXCEPT ![s].pc = where]

Return(s) == th' = [th EXCEPT ![s] = Idle]

\* a lock that does not wait for the holder
LockNoWait(s) == csv_mutex' = csv_mutex \cup {s}

\* pthread_mutex_lock(&csv_mutex) / pthread_mutex_unlock(&csv_mutex)
Lock(s) == csv_mutex = {} /\ csv_mutex' = {s}

Unlock(s) == csv_mutex' = csv_mutex \ {s}

\* a clock that is set back after the reading
TimeNowSetBack(now) ==
    /\ now \in {clock} \cup (IF budget.ticks > 0 THEN {clock + 1} ELSE {})
    /\ clock' = 0
    /\ budget' = IF now = clock THEN budget ELSE Spend(budget, "ticks")

\* time_now_us(): a clock that never runs backwards
TimeNow(now) ==
    /\ now \in {clock} \cup (IF budget.ticks > 0 THEN {clock + 1} ELSE {})
    /\ clock' = now
    /\ budget' = IF now = clock THEN budget ELSE Spend(budget, "ticks")

\* the secondary-layer columns of the row the buffer would give
SecCols(v, m) == SubSeq(RowOf(v, m), 24, Len(Header(v)))

\* the environment delivers one more report of its budget
Delivered(msg, kind) ==
    LET k == IF Len(msg) = 0 THEN "empty" ELSE kind
        b == Spend(budget, k)
    IN  /\ budget[k] > 0
        /\ IF kind = "mac" /\ Len(msg) > 1
           THEN budget.multi > 0 /\ budget' = Spend(b, "multi")
           ELSE budget' = b

\* sm_cb_mac: if (msg->len_ue_stats == 0) return; ue = &msg->ue_stats[0];
sm_cb_mac_begin(s) ==
    /\ Delivering(s, "mac")
    /\ \E msg \in Marks(s[1]) :
         /\ Delivered(msg, "mac")
         /\ mac_reports' = IF Len(msg) = 0 THEN mac_reports
                           ELSE mac_reports + 1
         /\ IF ZeroEntries(msg)
            THEN UNCHANGED th
            ELSE th' = [th EXCEPT ![s] = [Idle EXCEPT !.pc = "mac_lock",
                                                      !.ue = Entry0(msg),
                                                      !.n = Len(msg)]]
    /\ UNCHANGED <<env_vars, ctl_vars, csv_file, csv, csv_mutex, running,
                   sample_count, target_samples, metrics, active, oob, clock,
                   signalled,
                   v1_run>>

\* sm_cb_mac: lock; metrics.timestamp = time_now_us() .. metrics.ul_mcs2
sm_cb_mac_a(s) ==
    /\ At(s, "mac", "mac_lock")
    /\ Lock(s)
    /\ \E now \in {clock, clock + 1} :
         /\ TimeNow(now)
         /\ metrics' = Assign(metrics, MacAssignA(MacUe(th[s].ue), now))
    /\ th' = [th EXCEPT ![s].pc = "mac_b",
                        ![s].trig = SecCols(variant, metrics)]
    /\ UNCHANGED <<env_vars, ctl_vars, csv_file, csv, running, sample_count,
                   target_samples, active, mac_reports, oob, signalled>>
    /\ V1Does(V1Assign(MacAssignA(MacUe(th[s].ue), clock')))

\* a MAC callback that calls write_csv_row with the mutex still held
sm_cb_mac_b_locked(s) ==
    /\ At(s, "mac", "mac_b")
    /\ metrics' = Assign(metrics, MacAssignB(MacUe(th[s].ue)))
    /\ Goto(s, "row_check")
    /\ UNCHANGED <<env_vars, ctl_vars, budget, csv_file, csv, csv_mutex,
                   running, sample_count, target_samples, active,
                   mac_reports, oob, clock, signalled>>
    /\ V1Does(V1Assign(MacAssignB(MacUe(th[s].ue))))

\* sm_cb_mac: metrics.dl_tbs .. metrics.mac_valid = 1; unlock
sm_cb_mac_b(s) ==
    /\ At(s, "mac", "mac_b")
    /\ metrics' = Assign(metrics, MacAssignB(MacUe(th[s].ue)))
    /\ Unlock(s)
    /\ Goto(s, "row_check")
    /\ UNCHANGED <<env_vars, ctl_vars, budget, csv_file, csv, running,
                   sample_count, target_samples, active, mac_reports, oob,
                   clock, signalled>>
    /\ V1Does(V1Assign(MacAssignB(MacUe(th[s].ue))))

\* write_csv_row: if (!csv_file || !metrics.mac_valid) return;
write_csv_row_check(s) ==
    /\ At(s, "mac", "row_check")
    /\ IF csv_file = "NULL" \/ metrics.mac_valid = 0
       THEN Return(s)
       ELSE Goto(s, "row_lock")
    /\ UNCHANGED <<env_vars, ctl_vars, budget, csv_file, csv, csv_mutex,
                   running, sample_count, target_samples, metrics, active,
                   mac_reports, oob, clock, signalled>>
    /\ V1Does(V1RowCheck(~(csv_file = "NULL" \/ metrics.mac_valid = 0)))

\* fprintf(csv_file, ...) of one line; through a closed FILE* the line may
\* or may not reach the file
Fprintf(f, file, row) ==
    LET appended ==
          [f EXCEPT !.lines = @ + 1, !.last = row,
                    !.prev_ts = IF f.lines = 0 THEN -1 ELSE f.last[1],
                    !.first = IF f.hdr + f.lines = 0 THEN "row" ELSE @]
    IN  IF file = "open"
        THEN {appended}
        ELSE {[f EXCEPT !.stale = TRUE], [appended EXCEPT !.stale = TRUE]}

\* write_csv_row: lock; fprintf(csv_file, ..., metrics.timestamp, ...)
write_csv_row_print(s) ==
    /\ At(s, "mac", "row_lock")
    /\ Lock(s)
    /\ csv' \in Fprintf(csv, csv_file, RowOf(variant, metrics))
    /\ Goto(s, "row_count")
    /\ UNCHANGED <<env_vars, ctl_vars, budget, csv_file, running,
                   sample_count, target_samples, metrics, active,
                   mac_reports, oob, clock, signalled>>
    /\ V1Does(V1Print(csv'.lines > csv.lines))

\* write_csv_row: sample_count++;
write_csv_row_count(s) ==
    /\ At(s, "mac", "row_count")
    /\ sample_count' = sample_count + 1
    /\ Goto(s, "row_valid")
    /\ UNCHANGED <<env_vars, ctl_vars, budget, csv_file, csv, csv_mutex,
                   running, target_samples, metrics, active, mac_reports,
                   oob, clock, signalled>>
    /\ V1Does(V1Count)

\* a row emission that clears the flag of every layer
write_csv_row_valid_all(s) ==
    /\ At(s, "mac", "row_valid")
    /\ metrics' = Assign(metrics, [mac_valid |-> 0, rlc_valid |-> 0,
                                   pdcp_valid |-> 0, kpm_valid |-> 0])
    /\ Goto(s, "row_end")
    /\ UNCHANGED <<env_vars, ctl_vars, budget, csv_file, csv, csv_mutex,
                   running, sample_count, target_samples, active,
                   mac_reports, oob, clock, signalled>>
    /\ V1Does(V1Assign([mac_valid |-> 0]))

\* write_csv_row: metrics.mac_valid = 0;
write_csv_row_valid(s) ==
    /\ At(s, "mac", "row_valid")
    /\ metrics' = Assign(metrics, [mac_valid |-> 0])
    /\ Goto(s, "row_end")
    /\ UNCHANGED <<env_vars, ctl_vars, budget, csv_file, csv, csv_mutex,
                   running, sample_count, target_samples, active,
                   mac_reports, oob, clock, signalled>>
    /\ V1Does(V1Assign([mac_valid |-> 0]))

\* write_csv_row: if (sample_count % PRINT_INTERVAL == 0) fflush(csv_file);
\* if (sample_count >= target_samples) running = 0; unlock
write_csv_row_end(s) ==
    /\ At(s, "mac", "row_end")
    /\ csv' = IF sample_count % PrintInterval = 0 /\ csv_file = "open"
              THEN [csv EXCEPT !.synced = csv.lines]
              ELSE csv
    /\ running' = IF sample_count >= target_samples THEN 0 ELSE running
    /\ Unlock(s)
    /\ Return(s)
    /\ UNCHANGED <<env_vars, ctl_vars, budget, csv_file, sample_count,
                   target_samples, metrics, active, mac_reports, oob, clock,
                   signalled>>
    /\ V1Does(V1RowEnd)

\* a secondary callback up to its lock: if (msg->len == 0) return; rb[0]
SecBegin(s, m) ==
    /\ Delivering(s, m)
    /\ \E msg \in Marks(s[1]) :
         /\ Delivered(msg, "sec")
         /\ IF ZeroEntries(msg)
            THEN UNCHANGED th
            ELSE th' = [th EXCEPT ![s] = [Idle EXCEPT !.pc = "lock",
                                                      !.ue = Entry0(msg)]]
    /\ UNCHANGED <<env_vars, ctl_vars, csv_file, csv, csv_mutex, running,
                   sample_count, target_samples, metrics, active,
                   mac_reports, oob, clock, signalled,
                   v1_run>>

\* lock; the first assignments
SecA(s, m, assign) ==
    /\ At(s, m, "lock")
    /\ Lock(s)
    /\ metrics' = Assign(metrics, assign)
    /\ Goto(s, "b")
    /\ UNCHANGED <<env_vars, ctl_vars, budget, csv_file, csv, running,
                   sample_count, target_samples, active, mac_reports, oob,
                   clock, signalled>>
    /\ V1Does(IF m = "kpm" THEN v1_run ELSE V1Assign(assign))

\* the last assignments, x_valid = 1; unlock
SecB(s, m, assign) ==
    /\ At(s, m, "b")
    /\ metrics' = Assign(metrics, assign)
    /\ Unlock(s)
    /\ Return(s)
    /\ UNCHANGED <<env_vars, ctl_vars, budget, csv_file, csv, running,
                   sample_count, target_samples, active, mac_reports, oob,
                   clock, signalled>>
    /\ V1Does(IF m = "kpm" THEN v1_run ELSE V1Assign(assign))

sm_cb_rlc_begin(s) == SecBegin(s, "rlc")

sm_cb_rlc_a(s) == SecA(s, "rlc", RlcAssignA(RlcRb(th[s].ue)))

sm_cb_rlc_b(s) == SecB(s, "rlc", RlcAssignB(RlcRb(th[s].ue)))

sm_cb_pdcp_begin(s) == SecBegin(s, "pdcp")

sm_cb_pdcp_a(s) == SecA(s, "pdcp", PdcpAssignA(PdcpRb(th[s].ue)))

sm_cb_pdcp_b(s) == SecB(s, "pdcp", PdcpAssignB(PdcpRb(th[s].ue)))

\* sm_cb_gtp: the asserts only
sm_cb_gtp(s) ==
    /\ Delivering(s, "gtp")
    /\ UNCHANGED vars

(***************************************************************************)
(* The KPM callback of v2.  An indication (format 3) is a list of UE        *)
(* reports (format 1): a measurement-info list and a list of data items,    *)
(* each a list of records.                                                  *)
(***************************************************************************)
NameInfo(name) == [type |-> "NAME_MEAS_TYPE", name |-> name]

RealRec(v) == [value |-> "REAL_MEAS_VALUE", val |-> v]

IntRec(v) == [value |-> "INTEGER_MEAS_VALUE", val |-> v]

KpmInfoLists ==
    {<<>>, <<NameInfo("DRB.UEThpDl")>>,
     <<NameInfo("DRB.UEThpDl"), NameInfo("RRU.PrbTotUl")>>}

KpmRecordLists(v) == {<<RealRec(v)>>, <<RealRec(v), IntRec(v)>>}

KpmUeReports(n) ==
    {[meas_info_lst |-> il, meas_data_lst |-> <<rl>>] :
        il \in KpmInfoLists,
        rl \in UNION {KpmRecordLists(v) : v \in Vals(n)}}

KpmMsgs(n) == SeqsUpTo(KpmUeReports(n), MaxKpmUes)

\* what a read of meas_info_lst[z] past the end of the list may give
KpmGarbage ==
    {NameInfo("RRU.PrbTotUl"), [type |-> "ID_MEAS_TYPE", name |-> ""]}

\* the strcmp chains on the measurement name
KpmStore(m, name, rec) ==
    IF rec.value = "REAL_MEAS_VALUE"
    THEN CASE name = "DRB.UEThpDl" -> Assign(m, [dl_thp_kbps |-> rec.val])
           [] name = "DRB.UEThpUl" -> Assign(m, [ul_thp_kbps |-> rec.val])
           [] name = "DRB.RlcSduDelayDl" ->
                Assign(m, [rlc_sdu_delay_us |-> rec.val])
           [] OTHER -> m
    ELSE IF rec.value = "INTEGER_MEAS_VALUE"
    THEN CASE name = "DRB.PdcpSduVolumeDL" ->
                Assign(m, [pdcp_sdu_vol_dl_kb |-> rec.val])
           [] name = "DRB.PdcpSduVolumeUL" ->
                Assign(m, [pdcp_sdu_vol_ul_kb |-> rec.val])
           [] name = "RRU.PrbTotDl" -> Assign(m, [prb_tot_dl |-> rec.val])
           [] name = "RRU.PrbTotUl" -> Assign(m, [prb_tot_ul |-> rec.val])
           [] OTHER -> m
    ELSE m

\* meas_info_lst[z], read without a check of z against meas_info_lst_len
KpmInfoAt(f1, z, garbage) ==
    IF z <= Len(f1.meas_info_lst) THEN f1.meas_info_lst[z] ELSE garbage

\* the body of the z loop for one record
KpmRecord(m, f1, rec, z, garbage) ==
    IF Len(f1.meas_info_lst) = 0 THEN m
    ELSE LET info == KpmInfoAt(f1, z, garbage) IN
         IF info.type # "NAME_MEAS_TYPE" THEN m
         ELSE KpmStore(m, info.name, rec)

RECURSIVE KpmRecords(_, _, _, _, _)
KpmRecords(m, f1, recs, z, garbage) ==
    IF z > Len(recs) THEN m
    ELSE KpmRecords(KpmRecord(m, f1, recs[z], z, garbage), f1, recs, z + 1,
                    garbage)

RECURSIVE KpmData(_, _, _, _)
KpmData(m, f1, jj, garbage) ==
    IF jj > Len(f1.meas_data_lst) THEN m
    ELSE KpmData(KpmRecords(m, f1, f1.meas_data_lst[jj], 1, garbage), f1,
                 jj + 1, garbage)

RECURSIVE KpmUes(_, _, _, _)
KpmUes(m, msg, ii, garbage) ==
    IF ii > Len(msg) THEN m
    ELSE KpmUes(KpmData(m, msg[ii], 1, garbage), msg, ii + 1, garbage)

\* some record index of the message lies past its measurement-info list
KpmReadsPastEnd(msg) ==
    \E ii \in DOMAIN msg :
      /\ Len(msg[ii].meas_info_lst) > 0
      /\ \E jj \in DOMAIN msg[ii].meas_data_lst :
           Len(msg[ii].meas_data_lst[jj]) > Len(msg[ii].meas_info_lst)

\* sm_cb_kpm: if (msg_frm_3->ue_meas_report_lst_len == 0) return;
sm_cb_kpm_begin(s) ==
    /\ Delivering(s, "kpm")
    /\ \E msg \in KpmMsgs(s[1]) :
         /\ Delivered(msg, "sec")
         /\ IF ZeroEntries(msg)
            THEN UNCHANGED th
            ELSE th' = [th EXCEPT ![s] = [Idle EXCEPT !.pc = "lock",
                                                      !.msg = msg]]
    /\ UNCHANGED <<env_vars, ctl_vars, csv_file, csv, csv_mutex, running,
                   sample_count, target_samples, metrics, active,
                   mac_reports, oob, clock, signalled,
                   v1_run>>

\* sm_cb_kpm: lock; the i, j, z loops
sm_cb_kpm_a(s) ==
    /\ At(s, "kpm", "lock")
    /\ Lock(s)
    /\ \E garbage \in KpmGarbage :
         metrics' = KpmUes(metrics, th[s].msg, 1, garbage)
    /\ oob' = (oob \/ KpmReadsPastEnd(th[s].msg))
    /\ Goto(s, "b")
    /\ UNCHANGED <<env_vars, ctl_vars, budget, csv_file, csv, running,
                   sample_count, target_samples, active, mac_reports, clock,
                   signalled,
                   v1_run>>

\* sm_cb_kpm: metrics.kpm_valid = 1; unlock
sm_cb_kpm_b(s) == SecB(s, "kpm", [kpm_valid |-> 1])

(***************************************************************************)
(* The program.                                                             *)
(***************************************************************************)
Controller ==
    \/ main_open \/ main_discover \/ main_subscribe \/ main_sleep
    \/ main_loop_exit \/ main_unsubscribe \/ main_close \/ main_return

CallbacksV1 ==
    \E s \in Slots :
      \/ sm_cb_mac_begin(s) \/ sm_cb_mac_a(s) \/ sm_cb_mac_b(s)
      \/ write_csv_row_check(s) \/ write_csv_row_print(s)
      \/ write_csv_row_count(s) \/ write_csv_row_valid(s)
      \/ write_csv_row_end(s)
      \/ sm_cb_rlc_begin(s) \/ sm_cb_rlc_a(s) \/ sm_cb_rlc_b(s)
      \/ sm_cb_pdcp_begin(s) \/ sm_cb_pdcp_a(s) \/ sm_cb_pdcp_b(s)
      \/ sm_cb_gtp(s)

CallbacksV2 ==
    \E s \in Slots :
      \/ sm_cb_kpm_begin(s) \/ sm_cb_kpm_a(s) \/ sm_cb_kpm_b(s)

Next == Controller \/ signal_handler \/ CallbacksV1 \/ CallbacksV2

NodeLists == SeqsUpTo(NodeTypes, MaxNodes)

\* the numeric argument of the command line: none (0), or a count that is
\* not the default
Args == {0, TargetSamples + 1}

\* mac, sec: reports with entries; multi: the MAC reports among them that
\* may carry more than one UE; empty: reports without an entry
Budget(mac, sec, empty, faults, ticks, multi) ==
    [mac |-> mac, sec |-> sec, empty |-> empty, faults |-> faults,
     ticks |-> ticks, multi |-> multi]

(***************************************************************************)
(* Spec: the whole program in the collection scenarios, with a RIC that     *)
(* answers every call with success: v1 with no node and with two gNBs (two  *)
(* MAC streams), v2 with a DU and an eNB.  Time stands still.               *)
(***************************************************************************)
Scenarios ==
    {<<"v1", <<>>>>,
     <<"v1", <<"ngran_gNB", "ngran_gNB">>>>,
     <<"v2", <<"ngran_gNB_DU", "ngran_eNB">>>>}

Init ==
    /\ InitProgram
    /\ \E sc \in Scenarios : variant = sc[1] /\ e2_nodes = sc[2]
    /\ argv = 0
    /\ budget = Budget(MaxMacReports, MaxSecReports, MaxEmptyReports, 0, 0, 0)
    /\ v1_run = V1Start(FALSE)

Spec == Init /\ [][Next]_vars

(***************************************************************************)
(* SpecLifecycle: main() and the interrupt alone, for every list of nodes   *)
(* and with a RIC whose answers may deviate.                                *)
(***************************************************************************)
InitLifecycle ==
    /\ InitProgram
    /\ variant \in {"v1", "v2"}
    /\ e2_nodes \in NodeLists
    /\ argv \in Args
    /\ budget = Budget(0, 0, 0, MaxFaults, 0, 0)
    /\ v1_run = V1Start(FALSE)

NextLifecycle == Controller \/ signal_handler

SpecLifecycle == InitLifecycle /\ [][NextLifecycle]_vars

(***************************************************************************)
(* SpecMac: main(), the interrupt and the MAC callbacks of two gNBs, with   *)
(* MAC reports of several UEs and a clock that advances.  The controller    *)
(* thread is scheduled fairly; the RIC and the operator owe nothing.        *)
(***************************************************************************)
\* time passes
clock_tick ==
    /\ budget.ticks > 0
    /\ clock' = clock + 1
    /\ budget' = Spend(budget, "ticks")
    /\ UNCHANGED <<env_vars, ctl_vars, csv_file, csv, csv_mutex, running,
                   sample_count, target_samples, metrics, active, th,
                   mac_reports, oob, signalled,
                   v1_run>>

CallbacksMac ==
    \E s \in Slots :
      \/ sm_cb_mac_begin(s) \/ sm_cb_mac_a(s) \/ sm_cb_mac_b(s)
      \/ write_csv_row_check(s) \/ write_csv_row_print(s)
      \/ write_csv_row_count(s) \/ write_csv_row_valid(s)
      \/ write_csv_row_end(s)

InitMac ==
    /\ InitProgram
    /\ variant \in {"v1", "v2"}
    /\ e2_nodes = <<"ngran_gNB", "ngran_gNB">>
    /\ argv = 0
    /\ budget = Budget(MaxMacOnlyReports, 0, 0, 0, MaxTicks, MaxMultiReports)
    /\ v1_run = V1Start(FALSE)

NextMac == Controller \/ signal_handler \/ CallbacksMac \/ clock_tick

SpecMac == InitMac /\ [][NextMac]_vars /\ WF_vars(Controller)

(***************************************************************************)
(* SpecPair: v2 with v1 run alongside on the same reports, interrupts and   *)
(* answers, for one gNB and a RIC that answers every call with success.     *)
(***************************************************************************)
InitPair ==
    /\ InitProgram
    /\ variant = "v2"
    /\ e2_nodes = <<"ngran_gNB">>
    /\ argv = 0
    /\ budget = Budget(MaxPairMacReports, MaxPairSecReports, 0, 0, 0, 0)
    /\ v1_run = V1Start(TRUE)

SpecPair == InitPair /\ [][Next]_vars

(***************************************************************************)
(* Properties.                                                              *)
(***************************************************************************)
\* the columns first .. first + n - 1 of a row
Cols(row, first, n) == SubSeq(row, first, first + n - 1)

MacCols(row) == Cols(row, 2, Len(MacFields))

RlcCols(row) == Cols(row, 2 + Len(MacFields), Len(RlcFields))

PdcpCols(row) == Cols(row, 2 + Len(MacFields) + Len(RlcFields), Len(PdcpFields))

Uniform(seq) == \A a, b \in DOMAIN seq : seq[a] = seq[b]

AllZero(seq) == \A a \in DOMAIN seq : seq[a] = 0

\* no MAC callback is in progress
MacQuiescent == \A s \in Slots : s[2] = "mac" => th[s].pc = "idle"

\* every line so far went through the open file
FileIntact == ~csv.stale

\* C1: once every MAC callback has returned, the file holds exactly one row
\* per non-empty MAC report delivered, however the callbacks of the nodes
\* interleaved.
C1_OneRowPerMacReport ==
    (csv_file = "open" /\ MacQuiescent) => csv.lines = mac_reports

\* C2: the rows written never exceed the target by more than the one row
\* that may be in flight when the target is reached.
C2_RowsBoundedByTarget ==
    FileIntact => csv.lines <= target_samples + 1

\* C3: when an interrupt ends the idle loop below the target, the final file
\* holds the rows present when the loop was left plus at most one row in
\* flight; MAC reports delivered afterwards add none.
C3_NoRowsAfterInterrupt ==
    (/\ pc = "exited"
     /\ signalled
     /\ seen_rows >= 0
     /\ seen_rows < target_samples
     /\ FileIntact)
    => csv.lines <= seen_rows + 1

\* C4: a thread that has just formatted its row, inside the critical
\* section, finds mac_valid = 1.
C4_RowWrittenWhileValid ==
    \A s \in Slots :
      (th[s].pc = "row_count" /\ csv_file = "open") => metrics.mac_valid = 1

\* C5: in every row, the fields of one layer all come from one report: the
\* MAC columns carry one mark, the RLC columns one, the PDCP columns one.
C5_NoTornRow ==
    csv.lines > 0 =>
      /\ Uniform(MacCols(csv.last))
      /\ Uniform(RlcCols(csv.last))
      /\ Uniform(PdcpCols(csv.last))

\* a row with MAC and RLC values is in the file while one callback holds the
\* mutex and another waits for it
C5_Witness ==
    /\ csv.lines > 0
    /\ ~AllZero(MacCols(csv.last))
    /\ ~AllZero(RlcCols(csv.last))
    /\ csv_mutex # {}
    /\ \E s \in Slots : th[s].pc \in {"mac_lock", "lock", "row_lock"}

\* the secondary-layer columns of a row
SecColsOfRow(row) == SubSeq(row, 2 + Len(MacFields), Len(row))

\* C6: the secondary-layer columns of a row are the values the buffer held
\* at the row's trigger, the MAC update; a secondary update after the
\* trigger is not in the row.
C6_SecondaryAsOfTrigger ==
    \A s \in Slots :
      (th[s].pc = "row_count" /\ csv_file = "open")
      => SecColsOfRow(csv.last) = th[s].trig

\* no secondary report with an entry has been delivered yet
NoSecondaryYet == budget.sec = MaxSecReports

\* C7: as long as no secondary report has been applied, every row carries
\* zero in the secondary columns, and the rows are one per MAC report.
C7_DefaultsAndOneRowPerReport ==
    NoSecondaryYet =>
      /\ csv.lines > 0 => AllZero(SecColsOfRow(csv.last))
      /\ (csv_file = "open" /\ MacQuiescent) => csv.lines = mac_reports

\* C8: the delivery of a report without an entry, on any layer, changes
\* nothing: no row, the buffer, mac_valid and the sample count as before,
\* the callback returned at once.
C8_EmptyReportIgnored ==
    [][budget'.empty # budget.empty =>
         UNCHANGED <<csv, metrics, sample_count, running, csv_mutex, th,
                     csv_file>>]_vars

\* an empty report has been delivered after a row was written
C8_Witness ==
    /\ budget.empty < MaxEmptyReports
    /\ csv.lines > 0
    /\ sample_count > 0

Count(seq, x) == Cardinality({k \in DOMAIN seq : seq[k] = x})

\* C9: after the unsubscription loop, rm_report_sm_xapp_api has been called
\* exactly once for every subscription that succeeded and not at all for
\* the others, and the file is closed at the normal exit.
C9_UnsubscribeExactlyTheSuccessful ==
    /\ pc \in {"close", "stop"} \/ (pc = "exited" /\ exit_code = 0)
       => \A s \in Slots :
            Count(rm_log, s) = IF h[s].success THEN 1 ELSE 0
    /\ (pc = "exited" /\ exit_code = 0) => csv_file = "closed"

\* C10: when fopen fails or no node is connected, main returns non-zero
\* without a subscription and without a row; with no node, the file is
\* closed and holds the header alone.
C10_StartupFailure ==
    /\ (pc = "exited" /\ (csv_file = "NULL" \/ Len(e2_nodes) = 0))
       => exit_code = 1
    /\ exit_code = 1
       => /\ sub_log = <<>>
          /\ active = {}
          /\ csv.lines = 0
          /\ \/ csv_file = "NULL" /\ csv.hdr = 0
             \/ csv_file = "closed" /\ csv.hdr = 1 /\ Len(e2_nodes) = 0

\* main has returned 1 for want of nodes, the file closed with its header
C10_Witness ==
    /\ pc = "exited"
    /\ exit_code = 1
    /\ Len(e2_nodes) = 0
    /\ csv_file = "closed"
    /\ csv.hdr = 1

\* the subscribe loop is over and main has not failed
PastSubscribing ==
    \/ pc \in {"collect", "unsubscribe", "close", "stop"}
    \/ pc = "exited" /\ exit_code = 0

\* C11: whichever subscribe calls fail, every service model of every gNB and
\* eNB is subscribed exactly once (none retried, none left out), no failure
\* makes main return non-zero, and a run that subscribed ends after the
\* idle loop with the file closed and exit code 0.
C11_FailedSubscriptionNonFatal ==
    /\ PastSubscribing =>
         \A n \in 1..Len(nodes) :
           \A k \in 1..Len(SmNames(variant)) :
             Count(sub_log, <<n, SmId(SmNames(variant)[k])>>)
               = IF nodes[n] \in {"ngran_gNB", "ngran_eNB"} THEN 1 ELSE 0
    /\ Len(sub_log) > 0 => exit_code # 1
    /\ (pc = "exited" /\ Len(nodes) > 0)
       => exit_code = 0 /\ seen_rows >= 0 /\ csv_file = "closed"

\* a run with an eNB, a failed and a successful subscription has ended
\* with exit code 0
C11_Witness ==
    /\ pc = "exited"
    /\ exit_code = 0
    /\ \E n \in 1..Len(nodes) : nodes[n] = "ngran_eNB"
    /\ \E s \in Slots :
         ~h[s].success /\ Count(sub_log, <<s[1], SmId(s[2])>>) = 1
    /\ \E s \in Slots : h[s].success

\* C12: however the idle loop ended, the file is closed only after the
\* unsubscription loop has called rm_report_sm_xapp_api for every live
\* subscription, no unsubscribe call precedes the end of the idle loop, and
\* main returns only with the file flushed and closed.
C12_UnsubscribeThenClose ==
    /\ (csv_file = "closed" /\ Len(nodes) > 0)
       => /\ pc \in {"stop", "exited"}
          /\ seen_rows >= 0
          /\ \A s \in Slots :
               (h[s].success /\ h[s].u # 0) => Count(rm_log, s) = 1
          /\ FileIntact => csv.synced = csv.lines
    /\ Len(rm_log) > 0 => seen_rows >= 0
    /\ (pc = "exited" /\ seen_rows >= 0)
       => csv_file = "closed" /\ exit_code = 0

\* a run that reached its target without an interrupt has unsubscribed
\* and closed the file
C12_Witness ==
    /\ pc = "exited"
    /\ ~signalled
    /\ sample_count >= target_samples
    /\ Len(rm_log) > 0
    /\ csv_file = "closed"

\* the idle loop has reason to end: the stop flag or the target
StopDue ==
    pc = "collect" /\ (running = 0 \/ sample_count >= target_samples)

\* the unsubscription loop has run and the file is closed
ShutDown ==
    /\ pc \in {"stop", "exited"}
    /\ csv_file = "closed"
    /\ \A s \in Slots : h[s].success => Count(rm_log, s) = 1

\* C13: with the controller thread scheduled fairly, once the stop flag is
\* set or sample_count has reached the target during the idle loop, main
\* leaves the loop, unsubscribes and closes the file.
C13_StopEventuallyCloses == StopDue ~> ShutDown

\* an interrupted run below its target has unsubscribed and closed the file
C13_Witness ==
    /\ ShutDown
    /\ signalled
    /\ seen_rows >= 0
    /\ sample_count < target_samples

\* the configured duration of a run, in clock ticks
Duration == MaxTicks

\* no MAC report has arrived and no interrupt has been sent
Undisturbed == mac_reports = 0 /\ ~signalled

\* C14: the elapsed duration is a stop trigger of its own: when it has
\* elapsed during the idle loop, with no MAC report and no interrupt so
\* far, the loop's condition, evaluated at the next tick, ends the loop.
C14_DurationEndsCollecting ==
    (pc = "collect" /\ clock >= Duration /\ Undisturbed) => ~LoopCondition

\* C15: a file that is not empty starts with the header; there is one
\* header at most, and it is in the file before the first subscription and
\* the first row.
C15_HeaderFirst ==
    /\ csv.hdr + csv.lines > 0 => csv.first = "header"
    /\ csv.hdr <= 1
    /\ (Len(sub_log) > 0 \/ csv.lines > 0) => csv.hdr = 1

\* rows have been appended to a file that starts with its one header
C15_Witness ==
    /\ csv.lines > 1
    /\ csv.hdr = 1
    /\ csv.first = "header"

\* the member of metrics a header field names; v2 shortens two names
MetricOf(name) ==
    CASE name = "pdcp_vol_dl_kb" -> "pdcp_sdu_vol_dl_kb"
      [] name = "pdcp_vol_ul_kb" -> "pdcp_sdu_vol_ul_kb"
      [] OTHER -> name

AllFields ==
    <<"timestamp">> \o MacFields \o RlcFields \o PdcpFields \o KpmFields
        \o ValidFlags

\* a buffer in which no two members hold the same value
Probe ==
    [f \in MetricsFields |-> CHOOSE k \in DOMAIN AllFields : AllFields[k] = f]

\* row is the serialization of buffer m under the header of program v
Serializes(v, row, m) ==
    /\ Len(row) = Len(Header(v))
    /\ \A k \in DOMAIN row : row[k] = m[MetricOf(Header(v)[k])]

\* C16: a row has as many fields as the header, 34 in v1 and 41 in v2, and
\* its k-th field is the value of the metric the k-th header field names:
\* for a buffer of pairwise different values, and for every row written.
C16_RowMatchesHeader ==
    /\ Len(Header("v1")) = 34 /\ Len(Header("v2")) = 41
    /\ \A v \in {"v1", "v2"} : Serializes(v, RowOf(v, Probe), Probe)
    /\ \A s \in Slots :
         (th[s].pc = "row_count" /\ csv_file = "open")
         => Serializes(variant, csv.last, metrics)

\* a v2 row with MAC values and values of a secondary layer has just been
\* written
C16_Witness ==
    /\ variant = "v2"
    /\ csv_file = "open"
    /\ \E s \in Slots : th[s].pc = "row_count"
    /\ ~AllZero(MacCols(csv.last))
    /\ ~AllZero(SecColsOfRow(csv.last))

\* C17: once main has set it, the target of the stop condition is the
\* numeric argument when one was given, and the default when none was.
C17_TargetFromArgument ==
    pc # "main" =>
      target_samples = IF argv = 0 THEN TargetSamples ELSE argv

\* the marks of the entries after the first
AllOtherVals == UNION {OtherVals(n) : n \in 1..MaxNodes}

\* the buffer holds nothing of an entry after the first
OnlyFirstEntries ==
    \A k \in DOMAIN MacFields : metrics[MacFields[k]] \notin AllOtherVals

\* C18: the row a MAC callback writes for a report of several UEs carries,
\* in its MAC columns, the first entry of that report, and no entry after the
\* first reaches the buffer.
C18_FirstEntryOfSameReport ==
    /\ \A s \in Slots :
         (th[s].pc = "row_count" /\ th[s].n > 1 /\ csv_file = "open")
         => \A k \in DOMAIN MacFields : MacCols(csv.last)[k] = th[s].ue
    /\ OnlyFirstEntries

SecFlags == {"rlc_valid", "pdcp_valid", "kpm_valid"}

\* C19: a row emission consumes the snapshot of every layer and clears its
\* flag in the same critical section: where the emission has counted its row
\* and cleared, still holding the mutex, no layer's flag is set.
C19_EveryFlagClearedOnEmission ==
    \A s \in Slots :
      (th[s].pc = "row_end" /\ csv_file = "open")
      => \A k \in DOMAIN ValidFlags : metrics[ValidFlags[k]] = 0

\* C19, as the code keeps the flags: mac_valid changes only by a MAC
\* update, which sets it, and by a row emission, which clears it while it
\* holds the mutex; the flags of the secondary layers, once set, stay set,
\* row emissions included.
C19_FlagsAsKept ==
    [][/\ metrics'.mac_valid # metrics.mac_valid
          => \E s \in Slots :
               \/ th[s].pc = "mac_b" /\ metrics'.mac_valid = 1
               \/ /\ th[s].pc = "row_valid"
                  /\ csv_mutex = {s}
                  /\ metrics'.mac_valid = 0
       /\ \A s \in Slots : th'[s].pc = "row_end" => metrics'.mac_valid = 0
       /\ \A f \in SecFlags : metrics[f] = 1 => metrics'[f] = 1]_vars

\* a row emission has cleared mac_valid and left the flag of a secondary
\* layer set, whose values are in the row
C19_Witness ==
    /\ \E s \in Slots : th[s].pc = "row_end"
    /\ csv_file = "open"
    /\ metrics.mac_valid = 0
    /\ \E f \in SecFlags : metrics[f] = 1
    /\ ~AllZero(SecColsOfRow(csv.last))

\* no callback is inside write_csv_row's critical section
OutsideRowSection ==
    \A s \in Slots : th[s].pc \notin {"row_count", "row_valid", "row_end"}

\* C20: outside the critical section of a row emission, sample_count is the
\* number of rows appended to the file, and the count main reports at the
\* end is the number of rows in the file.
C20_CountIsRows ==
    /\ OutsideRowSection => sample_count = csv.lines
    /\ reported >= 0 => reported = csv.lines

\* rows appended and not yet flushed
Unflushed == csv.lines - csv.synced

\* C21: whenever no row emission is under way, fewer rows than the flush
\* interval are unflushed, and once the file has been closed no appended row
\* is unflushed.
C21_UnflushedBounded ==
    /\ OutsideRowSection => Unflushed < PrintInterval
    /\ csv_file = "closed" => Unflushed = 0

\* the members of metrics the callback of service model m assigns
Own(m) ==
    CASE m = "rlc" -> Range(RlcFields) \cup {"rlc_valid"}
      [] m = "pdcp" -> Range(PdcpFields) \cup {"pdcp_valid"}
      [] m = "kpm" -> Range(KpmFields) \cup {"kpm_valid"}
      [] OTHER -> {}

\* C22: a step of an RLC, PDCP or KPM callback leaves the file, the sample
\* count, the stop flag and every member of metrics that is not its own
\* layer's as they were, and a GTP callback has no step that changes
\* anything; a row is appended by a MAC callback only, and write_csv_row goes
\* on to its fprintf whenever the file is there and mac_valid is set,
\* whatever the flags of the secondary layers.
C22_OnlyMacEmits ==
    [][/\ \A s \in Slots :
            (s[2] # "mac" /\ th'[s] # th[s])
            => /\ UNCHANGED <<csv, csv_file, sample_count, running>>
               /\ \A f \in MetricsFields \ Own(s[2]) :
                    metrics'[f] = metrics[f]
               /\ s[2] # "gtp"
       /\ csv' # csv =>
            \/ \E s \in Slots : s[2] = "mac" /\ th'[s] # th[s]
            \/ pc' # pc
       /\ \A s \in Slots :
            (/\ th[s].pc = "row_check"
             /\ th'[s] # th[s]
             /\ csv_file # "NULL"
             /\ metrics.mac_valid = 1)
            => th'[s].pc = "row_lock"]_vars

\* a row with the values of an RLC report has been written while PDCP has
\* not reported yet
C22_Witness ==
    /\ csv.lines > 0
    /\ ~AllZero(RlcCols(csv.last))
    /\ metrics.rlc_valid = 1
    /\ metrics.pdcp_valid = 0
    /\ AllZero(PdcpCols(csv.last))

\* the RAN function ids in the order of subscription
SubscribeOrder(v) ==
    IF v = "v1" THEN <<142, 143, 144, 148>> ELSE <<142, 143, 144, 148, 2>>

\* the subscribe calls due for the nodes n .. Len(ns) of the list ns
RECURSIVE CallsDue(_, _, _)
CallsDue(v, ns, n) ==
    IF n > Len(ns) THEN <<>>
    ELSE (IF ns[n] \in {"ngran_gNB", "ngran_eNB"}
          THEN [k \in DOMAIN SubscribeOrder(v) |-> <<n, SubscribeOrder(v)[k]>>]
          ELSE <<>>)
         \o CallsDue(v, ns, n + 1)

IsPrefix(a, b) == Len(a) <= Len(b) /\ a = SubSeq(b, 1, Len(a))

\* C23: the subscribe calls made so far are the first of the calls due:
\* node by node in discovery order, MAC, RLC, PDCP, GTP and (v2) KPM for
\* each gNB or eNB, each once, nothing for a node of another type; when the
\* loop is over all calls due have been made, and the handle slots of a node
\* of another type are unsuccessful.
C23_SubscribeOrder ==
    /\ IsPrefix(sub_log, CallsDue(variant, nodes, 1))
    /\ PastSubscribing => sub_log = CallsDue(variant, nodes, 1)
    /\ \A n \in 1..Len(nodes) :
         nodes[n] \notin {"ngran_gNB", "ngran_eNB"}
         => \A m \in AllSm : ~h[<<n, m>>].success /\ <<n, m>> \notin active

\* v2 has subscribed the five service models of an eNB that follows a DU
C23_Witness ==
    /\ pc = "collect"
    /\ variant = "v2"
    /\ Len(nodes) = 2
    /\ nodes[1] = "ngran_gNB_DU"
    /\ nodes[2] = "ngran_eNB"
    /\ Len(sub_log) = 5

\* the next statement of the callback in progress on slot s
CallbackStep(s) ==
    \/ sm_cb_mac_a(s) \/ sm_cb_mac_b(s)
    \/ write_csv_row_check(s) \/ write_csv_row_print(s)
    \/ write_csv_row_count(s) \/ write_csv_row_valid(s)
    \/ write_csv_row_end(s)
    \/ sm_cb_rlc_a(s) \/ sm_cb_rlc_b(s)
    \/ sm_cb_pdcp_a(s) \/ sm_cb_pdcp_b(s)
    \/ sm_cb_kpm_a(s) \/ sm_cb_kpm_b(s)

\* the callback on slot s is at a pthread_mutex_lock another thread makes
\* it wait at
WaitsForMutex(s) ==
    th[s].pc \in {"mac_lock", "row_lock", "lock"} /\ csv_mutex # {}

\* C24: the step of the interrupt handler clears the stop flag and changes
\* nothing else of the program; and while the process runs, a callback in
\* progress can always take its next step, stop flag set or not, unless it
\* waits for the mutex another callback holds: nothing in a callback
\* depends on the flag.
C24_HandlerOnlySetsFlag ==
    /\ [][signalled' # signalled
            => /\ running' = 0
               /\ UNCHANGED <<metrics, sample_count, target_samples, csv,
                              csv_file, csv_mutex, th, active, h, sub_log,
                              rm_log, pc, exit_code, nodes, i, j, clock,
                              budget>>]_vars
    /\ [](\A s \in Slots :
            (th[s].pc # "idle" /\ pc # "exited")
            => (ENABLED CallbackStep(s)) \/ WaitsForMutex(s))

\* a MAC callback that started before the interrupt has written its row
\* after it, the stop flag set and the target not reached
C24_Witness ==
    /\ signalled
    /\ running = 0
    /\ sample_count < target_samples
    /\ seen_rows = 0
    /\ csv.lines > 0
    /\ csv_file = "open"
    /\ \E s \in Slots : th[s].pc = "row_count"

\* C25: every kpm_sub_data_t built is passed to one subscribe call and
\* released once, whichever answer the call got; between two passes of the
\* subscription loop none is allocated; and when the loop is over, v2 has
\* built, passed on and released exactly one for each gNB and eNB, and none
\* for any other node.
C25_KpmDefinitionReleased ==
    /\ \A n \in 1..MaxNodes :
         /\ kpm_sub[n].built <= 1
         /\ kpm_sub[n].passed = kpm_sub[n].built
         /\ kpm_sub[n].freed = kpm_sub[n].built
         /\ kpm_sub[n].passed = Count(sub_log, <<n, 2>>)
    /\ PastSubscribing =>
         \A n \in 1..Len(nodes) :
           kpm_sub[n].built =
             IF variant = "v2" /\ nodes[n] \in {"ngran_gNB", "ngran_eNB"}
             THEN 1 ELSE 0

\* the idle loop has been entered after a failed KPM subscription on one
\* node and a successful one on the other
C25_Witness ==
    /\ pc = "collect"
    /\ \E n \in 1..Len(nodes) :
         kpm_sub[n].freed = 1 /\ ~h[<<n, "kpm">>].success
    /\ \E n \in 1..Len(nodes) :
         kpm_sub[n].freed = 1 /\ h[<<n, "kpm">>].success

\* C26: once main has closed the file, no callback executes the fprintf of
\* write_csv_row: no line goes through the closed FILE*.
C26_NoRowAfterClose == csv_file = "closed" => ~csv.stale

\* the positions at a pthread_mutex_lock, and those between a lock and its
\* unlock
LockPoints == {"mac_lock", "row_lock", "lock"}

CriticalPoints == {"mac_b", "row_count", "row_valid", "row_end", "b"}

\* the next statement of a callback that is between a lock and its unlock
HolderStep(s) ==
    \/ sm_cb_mac_b(s)
    \/ write_csv_row_count(s) \/ write_csv_row_valid(s)
    \/ write_csv_row_end(s)
    \/ sm_cb_rlc_b(s) \/ sm_cb_pdcp_b(s) \/ sm_cb_kpm_b(s)

\* C27: at most one thread holds csv_mutex; the threads that hold it are
\* those between a lock and its unlock, so no thread arrives at a lock
\* holding the mutex and none leaves its callback with it; and while the
\* process runs the holder can always take its next step, towards its
\* unlock.
C27_MutexDiscipline ==
    /\ Cardinality(csv_mutex) <= 1
    /\ \A s \in Slots :
         /\ th[s].pc \in LockPoints => s \notin csv_mutex
         /\ s \in csv_mutex <=> th[s].pc \in CriticalPoints
         /\ (s \in csv_mutex /\ pc # "exited") => ENABLED HolderStep(s)

\* a MAC callback waits at the lock of write_csv_row while the callback of
\* another subscription holds the mutex
C27_Witness ==
    \E s, t \in Slots :
      /\ s # t
      /\ csv_mutex = {s}
      /\ th[t].pc = "row_lock"
      /\ s[2] # "mac"

\* C28: with a clock that never runs backwards, every row carries a
\* timestamp that is not less than that of the row before it, however the
\* MAC callbacks of the nodes interleave.
C28_TimestampsInOrder ==
    csv.lines >= 2 => csv.last[1] >= csv.prev_ts

\* a MAC callback has just appended, to the open file, a second row whose
\* timestamp is later than the first row's
C28_Witness ==
    /\ csv.lines = 2
    /\ csv.prev_ts = 0
    /\ csv.last[1] = 1
    /\ csv_file = "open"
    /\ \E s \in Slots : th[s].pc = "row_count"

\* the columns v2 adds to a row
KpmCols(row) == SubSeq(row, Len(HeaderV1) + 1, Len(row))

C30_KpmInfoInBounds == ~oob

====
